---- MODULE Spec2Model ----
(***************************************************************************)
(* normalized-hasher: one call of the library's Hasher::hash_file          *)
(* (crates/normalized-hash/src/lib.rs) and one call of the binary's        *)
(* hash_file (src/main.rs), each as a pass over the input file: open,      *)
(* create, one step per line, the trailing eol, return.                    *)
(*                                                                         *)
(* A text is a sequence of characters.  SHA-256 is idealised as an         *)
(* injective function of the message fed to it: the accumulator holds the  *)
(* bytes it was given, and the digest is a tag around them.                *)
(***************************************************************************)
EXTENDS Integers, Sequences, FiniteSets, TLC

VARIABLES
    h,              \* the Hasher: [eol, ignore_whitespaces, no_eof]
    content,        \* the content of file_in
    want_out,       \* file_out is Some(path)
    pc,             \* position in hash_file
    rest,           \* the part of file_in the BufReader has not read yet
    is_first_line,  \* the loop's is_first_line flag
    hasher,         \* the message fed to Sha256 so far
    written,        \* the bytes handed to the output writer so far
    buf,            \* the BufWriter's buffer
    disk,           \* the content of the file at the output path
    result,         \* the value returned to the caller
    flush_lost      \* the flush at the BufWriter's drop failed, unnoticed

vars == <<h, content, want_out, pc, rest, is_first_line, hasher, written,
          buf, disk, result, flush_lost>>

-----------------------------------------------------------------------------
(* Bounds *)

\* Longest input text.
MaxLen == 3

\* Capacity of the BufWriter.  std's default is 8 KiB; it is scaled down so
\* that lines shorter than, equal to and longer than the buffer all occur.
BufCap == 4

-----------------------------------------------------------------------------
(* Characters and texts *)

CR == "CR"
LF == "LF"
SP == "SP"

Chars == {"A", "B", SP, CR, LF}

Texts == UNION {[1..n -> Chars] : n \in 0..MaxLen}

\* char::is_whitespace, on the characters of the model.
is_whitespace(c) == c \in {SP, CR, LF}

\* What the output path holds before the call.
Stale == <<"B">>

NoDigest == <<"none">>

\* Sha256::finalize and the hex encoding, idealised: injective in the message.
Digest(msg) == <<"sha256", msg>>

-----------------------------------------------------------------------------
(* The Hasher *)

DefaultHasher == [eol |-> <<LF>>, ignore_whitespaces |-> FALSE, no_eof |-> FALSE]

Eols == {<<>>, <<LF>>, <<CR, LF>>}

Hashers == [eol : Eols, ignore_whitespaces : BOOLEAN, no_eof : BOOLEAN]

-----------------------------------------------------------------------------
(* BufRead::lines *)

RECURSIVE FindLFOrCR(_, _)
\* A splitter that takes a CR for a terminator too.
FindLFOrCR(s, i) ==
    IF i > Len(s) THEN 0
    ELSE IF s[i] \in {LF, CR} THEN i
    ELSE FindLFOrCR(s, i + 1)

RECURSIVE FindLF(_, _)
\* The index of the first LF of s at or after i, or 0.
FindLF(s, i) ==
    IF i > Len(s) THEN 0
    ELSE IF s[i] = LF THEN i
    ELSE FindLF(s, i + 1)

\* read_line: the bytes up to and including the first LF, or all that is left.
RawLine(s) ==
    LET i == FindLF(s, 1) IN
    IF i = 0 THEN s ELSE SubSeq(s, 1, i)

\* A Lines::next that drops the LF and leaves the CR.
ChompNoCR(raw) ==
    LET n == Len(raw) IN
    IF n > 0 /\ raw[n] = LF THEN SubSeq(raw, 1, n - 1) ELSE raw

\* Lines::next drops a final LF and then one CR before it.
Chomp(raw) ==
    LET n == Len(raw) IN
    IF n > 0 /\ raw[n] = LF
    THEN IF n > 1 /\ raw[n - 1] = CR
         THEN SubSeq(raw, 1, n - 2)
         ELSE SubSeq(raw, 1, n - 1)
    ELSE raw

\* A reader that yields read_line's bytes, terminator included.
NextLineUnchomped(s) == RawLine(s)

\* The line the iterator yields from the unread text s (s is not empty).
NextLine(s) == Chomp(RawLine(s))

\* What is left unread after that line.
AfterLine(s) == SubSeq(s, Len(RawLine(s)) + 1, Len(s))

-----------------------------------------------------------------------------
(* The loop body of Hasher::hash_file *)

\* A replace that deletes the spaces only.
replace_spaces(line) == SelectSeq(line, LAMBDA c : c # SP)

RECURSIVE replace_whitespace(_)
\* line.replace(|c: char| c.is_whitespace(), "")
replace_whitespace(line) ==
    IF line = <<>> THEN <<>>
    ELSE IF is_whitespace(Head(line)) THEN replace_whitespace(Tail(line))
    ELSE <<Head(line)>> \o replace_whitespace(Tail(line))

\* A loop body without the is_first_line test: eol before every line.
LineBytesEolFirst(hh, line, first) ==
    hh.eol \o (IF hh.ignore_whitespaces THEN replace_whitespace(line) ELSE line)

\* A loop body that strips after it has put eol in front.
LineBytesStripLast(hh, line, first) ==
    LET joined == IF ~first THEN hh.eol \o line ELSE line
    IN  IF hh.ignore_whitespaces THEN replace_whitespace(joined) ELSE joined

\* The bytes one iteration feeds to the digest and writes.
LineBytes(hh, line, first) ==
    LET stripped == IF hh.ignore_whitespaces THEN replace_whitespace(line) ELSE line
    IN  IF ~first THEN hh.eol \o stripped ELSE stripped

\* No eol after the loop.
TrailingBytesNever(hh) == <<>>

\* The bytes fed and written after the loop.
TrailingBytes(hh) == IF ~hh.no_eof THEN hh.eol ELSE <<>>

RECURSIVE HashLoop(_, _, _, _)
\* The whole loop over the unread text s, from the flag first, after acc.
HashLoop(hh, s, first, acc) ==
    IF s = <<>> THEN acc
    ELSE HashLoop(hh, AfterLine(s), FALSE, acc \o LineBytes(hh, NextLine(s), first))

\* The message Hasher::hash_file feeds to the digest for the input text.
HashedStream(hh, text) == HashLoop(hh, text, TRUE, <<>>) \o TrailingBytes(hh)

-----------------------------------------------------------------------------
(* BufWriter over the output file *)

ProperPrefixes(s) == {SubSeq(s, 1, k) : k \in 0..(Len(s) - 1)}
SkipFirst(s, k) == SubSeq(s, k + 1, Len(s))

\* flush_buf: every buffered byte reaches the file, or the write fails after
\* k of them; the bytes that got through leave the buffer.
FlushOutcomes(b, d) ==
    {[ok |-> TRUE, buf |-> <<>>, disk |-> d \o b]}
    \cup {[ok |-> FALSE, buf |-> SkipFirst(b, k), disk |-> d \o SubSeq(b, 1, k)]
            : k \in 0..(Len(b) - 1)}

\* After the flush, if any: data as long as the buffer goes to the file
\* directly (all of it, or an error after a part), shorter data is buffered.
PutOutcomes(b, d, data) ==
    IF Len(data) >= BufCap
    THEN {[ok |-> TRUE, buf |-> b, disk |-> d \o data]}
         \cup {[ok |-> FALSE, buf |-> b, disk |-> d \o p] : p \in ProperPrefixes(data)}
    ELSE {[ok |-> TRUE, buf |-> b \o data, disk |-> d]}

\* BufWriter::write_all(data) with buffer b over a file holding d.
WriteAllOutcomes(b, d, data) ==
    IF Len(data) < BufCap - Len(b)
    THEN {[ok |-> TRUE, buf |-> b \o data, disk |-> d]}
    ELSE IF Len(data) > BufCap - Len(b)
         THEN UNION {IF f.ok THEN PutOutcomes(f.buf, f.disk, data) ELSE {f}
                        : f \in FlushOutcomes(b, d)}
         ELSE PutOutcomes(b, d, data)

\* Drop of the BufWriter: a flush whose error nobody sees.
DropOutcomes(b, d) == FlushOutcomes(b, d)

-----------------------------------------------------------------------------
(* Hasher::hash_file *)

Init ==
    /\ h \in Hashers
    /\ content \in Texts
    /\ want_out \in BOOLEAN
    /\ pc = "open"
    /\ rest = <<>>
    /\ is_first_line = TRUE
    /\ hasher = <<>>
    /\ written = <<>>
    /\ buf = <<>>
    /\ disk = Stale
    /\ result = NoDigest
    /\ flush_lost = FALSE

\* A panic unwinds: the BufWriter, if there is one, is dropped on the way.
Panic(b, d) ==
    /\ pc' = "panicked"
    /\ \E o \in DropOutcomes(b, d) : buf' = o.buf /\ disk' = o.disk
    /\ UNCHANGED <<h, content, want_out, rest, is_first_line, result, flush_lost>>

\* File::open(file_in).unwrap(), BufReader::new
OpenIn ==
    /\ pc = "open"
    /\ pc' = "create"
    /\ rest' = content
    /\ UNCHANGED <<h, content, want_out, is_first_line, hasher, written, buf,
                   disk, result, flush_lost>>

OpenInErr ==
    /\ pc = "open"
    /\ pc' = "panicked"
    /\ UNCHANGED <<h, content, want_out, rest, is_first_line, hasher, written,
                   buf, disk, result, flush_lost>>

\* file_out.and_then(File::create(..).unwrap(), BufWriter::new), Sha256::new
CreateOut ==
    /\ pc = "create"
    /\ pc' = "loop"
    /\ disk' = IF want_out THEN <<>> ELSE disk
    /\ is_first_line' = TRUE
    /\ hasher' = <<>>
    /\ UNCHANGED <<h, content, want_out, rest, written, buf, result, flush_lost>>

CreateOutErr ==
    /\ pc = "create"
    /\ want_out
    /\ pc' = "panicked"
    /\ UNCHANGED <<h, content, want_out, rest, is_first_line, hasher, written,
                   buf, disk, result, flush_lost>>

\* One iteration of the loop.
Line ==
    /\ pc = "loop"
    /\ rest # <<>>
    /\ LET bytes == LineBytes(h, NextLine(rest), is_first_line) IN
       /\ hasher' = hasher \o bytes
       /\ IF want_out
          THEN /\ written' = written \o bytes
               /\ \E o \in WriteAllOutcomes(buf, disk, bytes) :
                     o.ok /\ buf' = o.buf /\ disk' = o.disk
          ELSE UNCHANGED <<written, buf, disk>>
    /\ rest' = AfterLine(rest)
    /\ is_first_line' = FALSE
    /\ UNCHANGED <<h, content, want_out, pc, result, flush_lost>>

\* line.unwrap() on a failed read.
LineReadErr ==
    /\ pc = "loop"
    /\ Panic(buf, disk)
    /\ UNCHANGED <<hasher, written>>

\* An iteration whose write_all(..).unwrap() fails.
LineWriteErr ==
    /\ pc = "loop"
    /\ rest # <<>>
    /\ want_out
    /\ LET bytes == LineBytes(h, NextLine(rest), is_first_line) IN
       /\ hasher' = hasher \o bytes
       /\ written' = written
       /\ \E o \in WriteAllOutcomes(buf, disk, bytes) :
             ~o.ok /\ Panic(o.buf, o.disk)

\* A block after the loop that hashes the trailing eol and does not write it.
EofNoWrite ==
    /\ pc = "loop"
    /\ rest = <<>>
    /\ pc' = "finish"
    /\ hasher' = hasher \o TrailingBytes(h)
    /\ UNCHANGED <<h, content, want_out, rest, is_first_line, written, buf,
                   disk, result, flush_lost>>

\* The end of the input: the block after the loop.
Eof ==
    /\ pc = "loop"
    /\ rest = <<>>
    /\ pc' = "finish"
    /\ LET bytes == TrailingBytes(h) IN
       /\ hasher' = hasher \o bytes
       /\ IF want_out /\ ~h.no_eof
          THEN /\ written' = written \o bytes
               /\ \E o \in WriteAllOutcomes(buf, disk, bytes) :
                     o.ok /\ buf' = o.buf /\ disk' = o.disk
          ELSE UNCHANGED <<written, buf, disk>>
    /\ UNCHANGED <<h, content, want_out, rest, is_first_line, result, flush_lost>>

EofWriteErr ==
    /\ pc = "loop"
    /\ rest = <<>>
    /\ want_out
    /\ ~h.no_eof
    /\ hasher' = hasher \o h.eol
    /\ written' = written
    /\ \E o \in WriteAllOutcomes(buf, disk, h.eol) :
          ~o.ok /\ Panic(o.buf, o.disk)

\* hasher.finalize(), the encoding, and the end of the scope: file_out is
\* dropped, then the caller has the digest.
Return ==
    /\ pc = "finish"
    /\ pc' = "done"
    /\ result' = Digest(hasher)
    /\ \E o \in DropOutcomes(buf, disk) :
          /\ buf' = o.buf
          /\ disk' = IF want_out THEN o.disk ELSE disk
          /\ flush_lost' = ~o.ok
    /\ UNCHANGED <<h, content, want_out, rest, is_first_line, hasher, written>>

Next ==
    \/ OpenIn
    \/ OpenInErr
    \/ CreateOut
    \/ CreateOutErr
    \/ Line
    \/ LineReadErr
    \/ LineWriteErr
    \/ Eof
    \/ EofWriteErr
    \/ Return

Spec == Init /\ [][Next]_vars

-----------------------------------------------------------------------------
(* hash_file of the binary (src/main.rs) *)

\* BufWriter::write(data): as write_all, but data as long as the buffer goes
\* to the file in ONE write call, which may take only a part of it.
BinPutOutcomes(b, d, data) ==
    IF Len(data) >= BufCap
    THEN {[ok |-> TRUE, buf |-> b, disk |-> d \o SubSeq(data, 1, k)]
            : k \in 1..Len(data)}
         \cup {[ok |-> FALSE, buf |-> b, disk |-> d]}
    ELSE {[ok |-> TRUE, buf |-> b \o data, disk |-> d]}

WriteOutcomes(b, d, data) ==
    IF Len(data) < BufCap - Len(b)
    THEN {[ok |-> TRUE, buf |-> b \o data, disk |-> d]}
    ELSE IF Len(data) > BufCap - Len(b)
         THEN UNION {IF f.ok THEN BinPutOutcomes(f.buf, f.disk, data) ELSE {f}
                        : f \in FlushOutcomes(b, d)}
         ELSE BinPutOutcomes(b, d, data)

\* A line formatted without the LF.
BinLineBytesNoLF(line) == line

\* format!("{}\n", line)
BinLineBytes(line) == line \o <<LF>>

InitBin ==
    /\ h = DefaultHasher
    /\ content \in Texts
    /\ want_out \in BOOLEAN
    /\ pc = "open"
    /\ rest = <<>>
    /\ is_first_line = TRUE
    /\ hasher = <<>>
    /\ written = <<>>
    /\ buf = <<>>
    /\ disk = Stale
    /\ result = NoDigest
    /\ flush_lost = FALSE

BinOpenIn == OpenIn

BinOpenInErr == OpenInErr

BinCreateOut == CreateOut

BinCreateOutErr == CreateOutErr

\* One iteration of the binary's loop.
BinLine ==
    /\ pc = "loop"
    /\ rest # <<>>
    /\ LET bytes == BinLineBytes(NextLine(rest)) IN
       /\ hasher' = hasher \o bytes
       /\ IF want_out
          THEN /\ written' = written \o bytes
               /\ \E o \in WriteOutcomes(buf, disk, bytes) :
                     o.ok /\ buf' = o.buf /\ disk' = o.disk
          ELSE UNCHANGED <<written, buf, disk>>
    /\ rest' = AfterLine(rest)
    /\ UNCHANGED <<h, content, want_out, pc, is_first_line, result, flush_lost>>

BinLineReadErr == LineReadErr

\* An iteration whose write(..).unwrap() fails.
BinLineWriteErr ==
    /\ pc = "loop"
    /\ rest # <<>>
    /\ want_out
    /\ LET bytes == BinLineBytes(NextLine(rest)) IN
       /\ hasher' = hasher \o bytes
       /\ written' = written
       /\ \E o \in WriteOutcomes(buf, disk, bytes) :
             ~o.ok /\ Panic(o.buf, o.disk)

\* The end of the input: nothing is appended.
BinEof ==
    /\ pc = "loop"
    /\ rest = <<>>
    /\ pc' = "finish"
    /\ UNCHANGED <<h, content, want_out, rest, is_first_line, hasher, written,
                   buf, disk, result, flush_lost>>

BinReturn == Return

NextBin ==
    \/ BinOpenIn
    \/ BinOpenInErr
    \/ BinCreateOut
    \/ BinCreateOutErr
    \/ BinLine
    \/ BinLineReadErr
    \/ BinLineWriteErr
    \/ BinEof
    \/ BinReturn

SpecBin == InitBin /\ [][NextBin]_vars

-----------------------------------------------------------------------------
(* What the claims speak of *)

RECURSIVE Lines(_)
\* The lines file_in.lines() yields for the text s, in order.
Lines(s) ==
    IF s = <<>> THEN <<>>
    ELSE <<NextLine(s)>> \o Lines(AfterLine(s))

RECURSIVE Join(_, _)
\* ls[1] sep ls[2] sep ... sep ls[n]
Join(ls, sep) ==
    IF ls = <<>> THEN <<>>
    ELSE IF Len(ls) = 1 THEN ls[1]
    ELSE ls[1] \o sep \o Join(Tail(ls), sep)

\* s with every whitespace character deleted.
WithoutWhitespace(s) == SelectSeq(s, LAMBDA c : c \notin {SP, CR, LF})

StrippedLines(s) ==
    LET ls == Lines(s) IN [i \in 1..Len(ls) |-> WithoutWhitespace(ls[i])]

\* The texts of the model, grouped: one class for each sequence of stripped
\* lines.
StrippedLinesClasses ==
    {{u \in Texts : StrippedLines(u) = StrippedLines(t)} : t \in Texts}

RECURSIVE CrlfToLf(_)
\* s with every CR LF pair replaced by LF.
CrlfToLf(s) ==
    IF s = <<>> THEN <<>>
    ELSE IF Len(s) >= 2 /\ s[1] = CR /\ s[2] = LF
         THEN <<LF>> \o CrlfToLf(SubSeq(s, 3, Len(s)))
         ELSE <<s[1]>> \o CrlfToLf(Tail(s))

RECURSIVE AnyCrToLf(_)
\* s with every CR LF pair and every other CR replaced by LF.
AnyCrToLf(s) ==
    IF s = <<>> THEN <<>>
    ELSE IF Len(s) >= 2 /\ s[1] = CR /\ s[2] = LF
         THEN <<LF>> \o AnyCrToLf(SubSeq(s, 3, Len(s)))
         ELSE <<IF s[1] = CR THEN LF ELSE s[1]>> \o AnyCrToLf(Tail(s))

\* The CR at i is not the first half of a CR LF pair.
LoneCrAt(s, i) == s[i] = CR /\ (i = Len(s) \/ s[i + 1] # LF)

HasLoneCr(s) == \E i \in 1..Len(s) : LoneCrAt(s, i)

HasCrlf(s) == \E i \in 1..(Len(s) - 1) : s[i] = CR /\ s[i + 1] = LF

\* Some CR LF pair comes right after another CR.
CrBeforeCrlf(s) ==
    \E i \in 1..(Len(s) - 2) : s[i] = CR /\ s[i + 1] = CR /\ s[i + 2] = LF

EndsWith(s, t) ==
    Len(s) >= Len(t) /\ SubSeq(s, Len(s) - Len(t) + 1, Len(s)) = t

\* s is empty or its last line has no terminator (and no CR that an appended
\* LF would pair with).
Unterminated(s) == s = <<>> \/ s[Len(s)] \notin {CR, LF}

Terminators == {<<LF>>, <<CR, LF>>}

\* The call returned what a call with the same Hasher returns on the text t:
\* the digest, the bytes handed to the output writer, and, unless the last
\* flush was lost, the output file.
SameRunAs(t) ==
    LET s == HashedStream(h, t) IN
    /\ result = Digest(s)
    /\ want_out => /\ written = s
                   /\ ~flush_lost => disk = s

-----------------------------------------------------------------------------
(* C1 *)

\* C1: with an output file requested, after every step of the pass (each
\* line, the trailing eol, the return) the bytes handed to the output writer
\* so far are the bytes fed to the digest so far, in the same order; the
\* writer holds them in the file followed by its buffer.
C1_OutputMirrorsDigest ==
    (want_out /\ pc \in {"loop", "finish", "done"}) =>
        /\ written = hasher
        /\ disk \o buf = hasher

\* Two lines and a trailing eol have been hashed and written.
C1_Witness ==
    /\ want_out
    /\ pc = "finish"
    /\ Len(Lines(content)) >= 2
    /\ h.eol # <<>>
    /\ ~h.no_eof
    /\ Len(hasher) >= 3

-----------------------------------------------------------------------------
(* C2 *)

\* C2: for a text whose every CR is the first half of a CR LF pair, and any
\* Hasher, the call returns the digest and writes the output that a call on
\* the text with every CR LF replaced by LF returns and writes.
C2_CrlfEqualsLf ==
    (pc = "done" /\ ~HasLoneCr(content)) => SameRunAs(CrlfToLf(content))

\* A text with a CR LF pair in it went through, with an output file.
C2_Witness ==
    /\ pc = "done"
    /\ want_out
    /\ ~HasLoneCr(content)
    /\ HasCrlf(content)
    /\ Len(content) = 3
    /\ ~flush_lost

-----------------------------------------------------------------------------
(* C3 *)

-----------------------------------------------------------------------------
(* C4 *)

\* C4 as stated: under the default Hasher, appending one line terminator to
\* any text, or removing one from its end, changes neither the digest nor
\* the output.  It is stated here of the texts without a lone CR, about
\* whose lines there is no doubt.
C4_TrailingTerminatorAnyInput ==
    (pc = "done" /\ h = DefaultHasher /\ ~HasLoneCr(content)) =>
        \A t \in Terminators :
            /\ SameRunAs(content \o t)
            /\ EndsWith(content, t)
                  => SameRunAs(SubSeq(content, 1, Len(content) - Len(t)))

\* C4 amended: under the default Hasher, for a text that is empty or whose
\* last line is unterminated (it ends in neither LF nor CR), appending one
\* terminator (LF or CR LF) changes neither the digest nor the output; and
\* removing the one trailing terminator of a text that, without it, is such
\* a text changes neither.
C4_TrailingTerminatorUnterminatedInput ==
    (pc = "done" /\ h = DefaultHasher) =>
        \A t \in Terminators :
            /\ Unterminated(content) => SameRunAs(content \o t)
            /\ (/\ EndsWith(content, t)
                /\ Unterminated(SubSeq(content, 1, Len(content) - Len(t))))
                  => SameRunAs(SubSeq(content, 1, Len(content) - Len(t)))

\* A text with two lines, the last one terminated once, went through.
C4_Witness ==
    /\ pc = "done"
    /\ h = DefaultHasher
    /\ want_out
    /\ content = <<"A", LF, "B">> \/ content = <<"A", CR, LF>>

-----------------------------------------------------------------------------
(* C5 *)

\* C5: for an empty input and no_eof = false the digest is fed exactly one
\* eol: the single LF with the default eol (not the empty string), and
\* nothing with eol = "".
C5_EmptyInputHashesOneEol ==
    (pc = "done" /\ content = <<>> /\ ~h.no_eof) =>
        /\ hasher = h.eol
        /\ result = Digest(h.eol)
        /\ h.eol = <<LF>> => (hasher = <<LF>> /\ result # Digest(<<>>))
        /\ h.eol = <<>> => result = Digest(<<>>)

\* The empty input went through the default Hasher.
C5_Witness ==
    /\ pc = "done"
    /\ content = <<>>
    /\ h = DefaultHasher

-----------------------------------------------------------------------------
(* C6 *)

\* C6: with ignore_whitespaces off and lines L1..Ln, n >= 1, the stream
\* hashed and written is L1 eol L2 ... eol Ln, then one more eol iff no_eof
\* is false.
C6_EolBetweenLines ==
    (pc = "done" /\ ~h.ignore_whitespaces /\ Lines(content) # <<>>) =>
        LET s == Join(Lines(content), h.eol)
                    \o (IF h.no_eof THEN <<>> ELSE h.eol)
        IN  /\ hasher = s
            /\ result = Digest(s)
            /\ want_out => written = s

\* Three lines went through with a non-empty eol and no_eof.
C6_Witness ==
    /\ pc = "done"
    /\ ~h.ignore_whitespaces
    /\ Len(Lines(content)) = 3
    /\ h.eol = <<CR, LF>>
    /\ h.no_eof
    /\ want_out

-----------------------------------------------------------------------------
(* C7 *)

\* C7: with ignore_whitespaces on, any text with as many lines, whose lines
\* are the same once whitespace is deleted, gives the same digest and
\* output; the inserted eol is not stripped: the stream is the stripped
\* lines joined by eol, with the trailing eol unless no_eof.
C7_WhitespaceIgnoredPerLine ==
    (pc = "done" /\ h.ignore_whitespaces) =>
        /\ \A class \in StrippedLinesClasses :
              content \in class => \A t \in class : SameRunAs(t)
        /\ hasher = Join(StrippedLines(content), h.eol)
                        \o (IF h.no_eof THEN <<>> ELSE h.eol)

\* Two lines with whitespace inside went through with a whitespace eol.
C7_Witness ==
    /\ pc = "done"
    /\ h.ignore_whitespaces
    /\ h.eol = <<LF>>
    /\ content = <<SP, LF, "A">>
    /\ want_out

-----------------------------------------------------------------------------
(* C8 *)

\* C8: with ignore_whitespaces on, eol = "" and no_eof, the stream hashed
\* and written is the input with every whitespace character and every line
\* terminator deleted; texts with the same non-whitespace characters give
\* the same digest and output.
C8_OnlyNonWhitespaceCounts ==
    (pc = "done" /\ h.ignore_whitespaces /\ h.eol = <<>> /\ h.no_eof) =>
        /\ hasher = WithoutWhitespace(content)
        /\ \A t \in Texts :
              WithoutWhitespace(t) = WithoutWhitespace(content) => SameRunAs(t)

\* Two lines went through, each with a letter.
C8_Witness ==
    /\ pc = "done"
    /\ h.ignore_whitespaces
    /\ h.eol = <<>>
    /\ h.no_eof
    /\ content = <<"A", LF, "B">>
    /\ want_out

-----------------------------------------------------------------------------
(* C9 *)

\* C9: a failure aborts the call without a digest; whenever a digest is
\* returned and an output file was requested, the file holds exactly the
\* bytes that were hashed.
C9_AllOrNothing ==
    /\ pc = "panicked" => result = NoDigest
    /\ (result # NoDigest /\ want_out) => disk = hasher

-----------------------------------------------------------------------------
(* C10 *)

\* C10 as stated: for every input the binary's hash_file returns the digest
\* and writes the output of the library's default Hasher.
C10_BinaryEqualsLibrary ==
    pc = "done" =>
        LET s == HashedStream(DefaultHasher, content) IN
        /\ result = Digest(s)
        /\ want_out => written = s

\* Every line, with its LF, is shorter than the BufWriter's buffer.
LinesFitBuffer(s) == \A i \in 1..Len(Lines(s)) : Len(Lines(s)[i]) + 1 < BufCap

\* C10 amended: for every input of at least one line the binary's hash_file
\* returns the digest of the library's default Hasher and hands the same
\* bytes to its output writer (the file holds them when every line fits the
\* buffer and the last flush was not lost); for the empty input the binary
\* hashes the empty string and the library a single LF.
C10_BinaryEqualsLibraryOnLines ==
    pc = "done" =>
        LET s == HashedStream(DefaultHasher, content) IN
        /\ content # <<>> =>
              /\ result = Digest(s)
              /\ want_out => /\ written = s
                             /\ (LinesFitBuffer(content) /\ ~flush_lost) => disk = s
        /\ content = <<>> =>
              /\ result = Digest(<<>>)
              /\ s = <<LF>>
              /\ result # Digest(s)

\* Two lines went through the binary, with an output file.
C10_Witness ==
    /\ pc = "done"
    /\ content = <<"A", CR, LF>> \/ content = <<"A", LF, "B">>
    /\ want_out
    /\ ~flush_lost

-----------------------------------------------------------------------------
(* C11 *)

\* The output file, given back to the default Hasher as its input, gives
\* the digest just returned and, as normalized output, the file itself.
OutputIsFixedPoint ==
    LET s == HashedStream(DefaultHasher, disk) IN
    /\ Digest(s) = result
    /\ s = disk

LineEndsInCr(s) == CrBeforeCrlf(s) \/ EndsWith(s, <<CR>>)

====
